---- MODULE Spec2Model ----
(***************************************************************************)
(* Model of src/main.py: the Nitter mirror failover endpoint get_tweets    *)
(* and its helpers clean_html and extract_image.                           *)
(*                                                                         *)
(* Text is modelled as a sequence of one-character strings, so that the    *)
(* regular expressions and str methods of the source can be computed       *)
(* character by character.                                                 *)
(***************************************************************************)
EXTENDS Naturals, Sequences, FiniteSets

VARIABLES
    mirror_response, \* environment: what each mirror answers to the GET of its feed
    q,               \* get_tweets: query parameter q
    type,            \* get_tweets: query parameter type
    path,            \* get_tweets: local path (line 73)
    pc,              \* get_tweets: "idle" | "await" (suspended in client.get) | "done" | "cancelled"
    idx,             \* get_tweets: position of base_url in NITTER_INSTANCES
    tweets,          \* get_tweets: local tweets
    ret,             \* get_tweets: what the caller receives
    requests,        \* rss_url of every GET issued by the current request, in order
    pending,         \* positions of the mirrors whose GET is in flight
    log,             \* how each finished attempt of the current request ended
    raw_html,        \* clean_html: its argument
    cleantext,       \* clean_html: its return value
    description,     \* extract_image: its argument, as a sequence of elements
    url,             \* extract_image: its return value
    fpc,             \* position of the helper under test: "off" | "ready" | "returned"
    last,            \* what the request being repeated gave, when the current one repeats it
    peer,            \* the frame of the other coroutine of the event loop
    rid              \* which request the event loop is running: 1 | 2

cvars == <<mirror_response, q, type, path, pc, idx, tweets, ret, requests, pending, log>>
fvars == <<raw_html, cleantext, description, url, fpc>>
hvars == <<last, peer, rid>>
vars == <<cvars, fvars, hvars>>

\* Optional[str]: None, or a string
None == [none |-> TRUE]
Some(v) == [val |-> v]

(***************************************************************************)
(* Bounds of the helper specifications                                     *)
(***************************************************************************)
MaxLen == 4        \* longest raw_html tried on clean_html
MaxElems == 3      \* most elements in a description tried on extract_image
MaxQLen == 3       \* longest q tried on the path of line 73

RECURSIVE StringsUpTo(_, _)
StringsUpTo(A, n) ==
    IF n = 0 THEN {<<>>}
    ELSE LET S == StringsUpTo(A, n - 1)
         IN  S \cup {Append(s, c) : s \in {t \in S : Len(t) = n - 1}, c \in A}

StartsWith(s, p, i) ==
    /\ i + Len(p) - 1 <= Len(s)
    /\ \A k \in 1..Len(p) : s[i + k - 1] = p[k]

(***************************************************************************)
(* clean_html                                                              *)
(***************************************************************************)
\* '.' of the pattern '<.*?>': compiled without re.DOTALL, it matches every
\* character but the newline
DotMatches(c) == c # "\n"

\* The lazy '.*?>' tried from position j: the position of the '>' that ends
\* the match, 0 when there is no match
RECURSIVE TagEnd(_, _)
TagEnd(s, j) ==
    IF j > Len(s) THEN 0
    ELSE IF s[j] = ">" THEN j
    ELSE IF DotMatches(s[j]) THEN TagEnd(s, j + 1)
    ELSE 0

\* re.sub(cleanr, '', raw_html) from position i: the leftmost non-overlapping
\* matches of '<.*?>' are dropped, everything else is kept
RECURSIVE ReSub(_, _)
ReSub(s, i) ==
    IF i > Len(s) THEN <<>>
    ELSE IF s[i] = "<" /\ TagEnd(s, i + 1) # 0
         THEN ReSub(s, TagEnd(s, i + 1) + 1)
         ELSE <<s[i]>> \o ReSub(s, i + 1)

\* str.isspace of one character
IsSpace(c) == c \in {" ", "\t", "\n", "\r"}

RECURSIVE LStrip(_)
LStrip(s) == IF s # <<>> /\ IsSpace(Head(s)) THEN LStrip(Tail(s)) ELSE s

RECURSIVE RStrip(_)
RStrip(s) ==
    IF s # <<>> /\ IsSpace(s[Len(s)]) THEN RStrip(SubSeq(s, 1, Len(s) - 1)) ELSE s

\* str.strip()
Strip(s) == RStrip(LStrip(s))

clean_html(raw) == Strip(ReSub(raw, 1))

(***************************************************************************)
(* extract_image                                                           *)
(***************************************************************************)
IMG == <<"<", "i", "m", "g">>
SRCQ == <<"s", "r", "c", "=", "\"">>
HTTPS == <<"h", "t", "t", "p", "s", ":">>

\* Length of the longest run of characters not in Stop starting at position i
RECURSIVE RunLen(_, _, _)
RunLen(s, i, Stop) ==
    IF i > Len(s) \/ s[i] \in Stop THEN 0 ELSE 1 + RunLen(s, i + 1, Stop)

\* The pattern '<img[^>]+src="([^">]+)"' matched at position p, where '<img'
\* is, with '[^>]+' taking exactly k characters of the run of characters
\* other than '>' that follows. The group '[^">]+' is greedy and must be
\* followed by '"', so only its longest run can match.
ImgMatchAt(s, p, k) ==
    /\ StartsWith(s, SRCQ, p + 4 + k)
    /\ LET g == p + 4 + k + 5
           m == RunLen(s, g, {"\"", ">"})
       IN  /\ m >= 1
           /\ g + m <= Len(s)
           /\ s[g + m] = "\""

ImgGroup(s, p, k) ==
    LET g == p + 4 + k + 5
    IN  SubSeq(s, g, g + RunLen(s, g, {"\"", ">"}) - 1)

\* The first match at p in backtracking order: the greedy '[^>]+' tries its
\* longest run first and gives back one character at a time. 0: no match at p
RECURSIVE ImgTake(_, _, _)
ImgTake(s, p, k) ==
    IF k = 0 THEN 0
    ELSE IF ImgMatchAt(s, p, k) THEN k
    ELSE ImgTake(s, p, k - 1)

\* re.search from position p on: the leftmost position with a match
RECURSIVE ImgSearch(_, _)
ImgSearch(s, p) ==
    IF p > Len(s) THEN None
    ELSE LET k == IF StartsWith(s, IMG, p)
                  THEN ImgTake(s, p, RunLen(s, p + 4, {">"}))
                  ELSE 0
         IN  IF k # 0 THEN Some(ImgGroup(s, p, k)) ELSE ImgSearch(s, p + 1)

extract_image(d) ==
    LET img_match == ImgSearch(d, 1)
    IN  IF img_match # None
        THEN LET u == img_match.val
             IN  IF StartsWith(u, <<"/", "/">>, 1) THEN Some(HTTPS \o u) ELSE Some(u)
        ELSE None

(***************************************************************************)
(* Descriptions given to extract_image: an entry's description is markup,  *)
(* a sequence of elements (text, tags with attributes) rendered to text    *)
(***************************************************************************)
Text(t) == [kind |-> "text", text |-> t]
Tag(n, as) == [kind |-> "tag", name |-> n, attrs |-> as]
Attr(n, v) == [name |-> n, value |-> v]

SRC == <<"s", "r", "c">>
ALT == <<"a", "l", "t">>
DATA_SRC == <<"d", "a", "t", "a", "-", "s", "r", "c">>
IMGNAME == <<"i", "m", "g">>

RECURSIVE RenderAttrs(_)
RenderAttrs(as) ==
    IF as = <<>> THEN <<>>
    ELSE <<" ">> \o Head(as).name \o <<"=", "\"">> \o Head(as).value \o <<"\"">>
         \o RenderAttrs(Tail(as))

RenderElem(e) ==
    IF e.kind = "text" THEN e.text
    ELSE <<"<">> \o e.name \o RenderAttrs(e.attrs) \o <<">">>

RECURSIVE Render(_)
Render(es) == IF es = <<>> THEN <<>> ELSE RenderElem(Head(es)) \o Render(Tail(es))

ElemPool ==
    { Tag(IMGNAME, <<Attr(SRC, <<"/", "/", "h", "/", "a">>)>>),
      Tag(IMGNAME, <<Attr(SRC, <<"b">>)>>),
      Tag(IMGNAME, <<Attr(SRC, <<"/", "p">>)>>),
      Tag(IMGNAME, <<Attr(ALT, <<"x">>)>>),
      Tag(IMGNAME, <<Attr(SRC, <<"a">>), Attr(DATA_SRC, <<"c">>)>>),
      Tag(<<"p">>, <<>>),
      Text(<<"t">>) }

CleanAlphabet == {"<", ">", " ", "\n", "a"}

(***************************************************************************)
(* get_tweets: the data it works on                                        *)
(***************************************************************************)
NITTER_INSTANCES ==
    << "https://nitter.privacydev.net",
       "https://nitter.poast.org",
       "https://nitter.cz",
       "https://nitter.it",
       "https://nitter.net" >>

\* A feed entry is a mapping from the fields it has to their values; reading
\* a field it lacks raises AttributeError
D1 == Render(<<Text(<<"t">>), Tag(IMGNAME, <<Attr(SRC, <<"/", "/", "h", "/", "a">>)>>)>>)
D2 == Render(<<Tag(<<"b">>, <<>>), Text(<<"x", " ">>)>>)

E1 == [id |-> "id1", author |-> <<"b", "o", "b">>, description |-> D1,
       link |-> "link1", published |-> "date1"]
E2 == [id |-> "id2", description |-> D2, link |-> "link2", published |-> "date2"]
E3 == [id |-> "id3", description |-> D1, link |-> "link3"]

\* What client.get gives: an exception (DNS, connect, timeout, TLS, too many
\* redirects) or a response with a status and a body, the body given by the
\* entries feedparser.parse finds in it
TransportError == [kind |-> "error"]
NotAsked == [kind |-> "unknown"]
Http(status, entries) == [kind |-> "http", status_code |-> status, entries |-> entries]

\* A body that is not a well-formed feed document: feedparser.parse does not
\* raise on it, it sets feed.bozo and gives the entries it could recover
Malformed(status, entries) ==
    [kind |-> "http", status_code |-> status, entries |-> entries, bozo |-> TRUE]

ResponsePool ==
    { TransportError,
      Http(404, <<>>),
      Http(203, <<E1>>),
      Http(200, <<>>),
      Http(200, <<E1>>),
      Http(200, <<E2, E1>>),
      Http(200, <<E1, E3>>),
      Malformed(200, <<E1>>) }

QPool == { <<"@", "a">>, <<"c">> }
TypePool == { "user", "search" }

SEARCH == <<"s", "e", "a", "r", "c", "h", "?", "q", "=">>
RSS == <<"/", "r", "s", "s">>

\* str.replace(old, '') for a one-character old
RECURSIVE Remove(_, _)
Remove(s, old) ==
    IF s = <<>> THEN <<>>
    ELSE (IF Head(s) = old THEN <<>> ELSE <<Head(s)>>) \o Remove(Tail(s), old)

\* a variant that strips the leading '@' characters only
RECURSIVE LStripAt(_)
LStripAt(s) == IF s # <<>> /\ Head(s) = "@" THEN LStripAt(Tail(s)) ELSE s

PathLeadingOnly(qq, t) == IF t = "user" THEN LStripAt(qq) ELSE SEARCH \o qq

\* a variant that takes the '@' characters out in both modes
PathAlwaysStripped(qq, t) ==
    IF t = "user" THEN Remove(qq, "@") ELSE SEARCH \o Remove(qq, "@")

\* a variant that searches only when type is "search"
PathSearchExact(qq, t) ==
    IF t = "search" THEN SEARCH \o qq ELSE Remove(qq, "@")

\* line 73
PathOf(qq, t) == IF t = "user" THEN Remove(qq, "@") ELSE SEARCH \o qq

\* line 78: f"{base_url}/{path}/rss", the base URL kept as one token
RssUrl(base_url, p) == <<base_url, "/">> \o p \o RSS

\* line 81, and a variant accepting the whole 2xx class
StatusOk2xx(status_code) == status_code \in 200..299

StatusOk(status_code) == status_code = 200

\* lines 82-88: feed = feedparser.parse(response.text), then feed.entries; and
\* a variant that takes nothing from a feed flagged as malformed
ParseStrict(r) == IF "bozo" \in DOMAIN r THEN <<>> ELSE r.entries

Parse(r) == r.entries

\* line 84: not feed.entries, and a variant that never skips
NoEntriesNever(entries) == FALSE

NoEntries(entries) == entries = <<>>

\* lines 89-96: the fields read without a presence check
Readable(entry) == {"id", "description", "link", "published"} \subseteq DOMAIN entry

\* lines 92-93: clean_html and extract_image are pure; what they give on the
\* descriptions of the entries above is worked out once
Descriptions == {D1, D2}
Content == [d \in Descriptions |-> clean_html(d)]
Image == [d \in Descriptions |-> extract_image(d)]

\* lines 89-96, and a variant that falls back to the subject without its '@'
TweetAuthorStripped(entry, qq) ==
    [ id |-> entry.id,
      author |-> IF "author" \in DOMAIN entry THEN entry.author ELSE Remove(qq, "@"),
      content |-> Content[entry.description],
      image |-> Image[entry.description],
      link |-> entry.link,
      published |-> entry.published ]

Tweet(entry, qq) ==
    [ id |-> entry.id,
      author |-> IF "author" \in DOMAIN entry THEN entry.author ELSE qq,
      content |-> Content[entry.description],
      image |-> Image[entry.description],
      link |-> entry.link,
      published |-> entry.published ]

\* line 87, and a variant that keeps the list of the previous iteration
KeepTweets(old) == old

NewTweets(old) == <<>>

\* lines 88-96 from entry k on: the list built, and whether an entry raised
RECURSIVE Build(_, _, _, _)
Build(entries, k, qq, acc) ==
    IF k > Len(entries) THEN [tweets |-> acc, raised |-> FALSE]
    ELSE IF ~Readable(entries[k]) THEN [tweets |-> acc, raised |-> TRUE]
    ELSE Build(entries, k + 1, qq, Append(acc, Tweet(entries[k], qq)))

TweetResponse(instance, data) == [kind |-> "TweetResponse", instance |-> instance, data |-> data]
HTTPException(status_code) == [kind |-> "HTTPException", status_code |-> status_code]
NoReturn == [kind |-> "none"]

(***************************************************************************)
(* get_tweets: one step per stretch of code between two suspensions. The   *)
(* coroutine is suspended only in "await client.get(...)" (line 79).       *)
(***************************************************************************)
\* the for statement of line 76 going from the mirror at position i to the
\* next one, and a variant that skips one
AdvanceTwo(i) == i + 2

Advance(i) == i + 1

\* the for statement of line 76 finding the list used up at position i, and
\* a variant that gives up one mirror early
ExhaustedEarly(i) == i >= Len(NITTER_INSTANCES)

Exhausted(i) == i > Len(NITTER_INSTANCES)

\* The loop reaching position i with path p, after the GETs reqs, with the
\* GETs pend in flight: lines 76-79 up to the suspension in client.get, or,
\* when the list is used up, line 103
Iterate(i, p, reqs, pend) ==
    IF ~Exhausted(i)
    THEN /\ idx' = i
         /\ requests' = Append(reqs, RssUrl(NITTER_INSTANCES[i], p))
         /\ pending' = pend \cup {i}
         /\ pc' = "await"
         /\ ret' = NoReturn
    ELSE /\ idx' = i
         /\ requests' = reqs
         /\ pending' = pend
         /\ pc' = "done"
         /\ ret' = HTTPException(503)

\* Variants of the handler of lines 99-101: one lets the exception reach the
\* caller (the framework answers 500), one tries the same mirror again
ExceptReraise(i, p, reqs, pend) ==
    /\ idx' = i
    /\ requests' = reqs
    /\ pending' = pend
    /\ pc' = "done"
    /\ ret' = HTTPException(500)

ExceptRetry(i, p, reqs, pend) ==
    IF Len(reqs) < 2 * Len(NITTER_INSTANCES)
    THEN Iterate(i, p, reqs, pend)
    ELSE Iterate(Advance(i), p, reqs, pend)

\* lines 99-101: except Exception: print, continue
Except(i, p, reqs, pend) == Iterate(Advance(i), p, reqs, pend)

\* What the mirror at position i may answer: a mirror keeps to the answer it
\* gave the first time it was asked
Answers(i) ==
    IF mirror_response[NITTER_INSTANCES[i]] = NotAsked
    THEN ResponsePool
    ELSE {mirror_response[NITTER_INSTANCES[i]]}

\* client.get resumes the coroutine with the answer r of the mirror at idx
Resumed(r) ==
    /\ pc = "await"
    /\ r \in Answers(idx)
    /\ mirror_response' = [mirror_response EXCEPT ![NITTER_INSTANCES[idx]] = r]

\* get_tweets entered with q and type: lines 73-79 for the first mirror; and
\* a variant that remembers between requests how far the last one went and
\* starts there
HandleFromLast(qq, t) ==
    /\ q' = qq
    /\ type' = t
    /\ path' = PathOf(qq, t)
    /\ Iterate(IF pc = "done" THEN idx ELSE 1, path', <<>>, {})
    /\ tweets' = <<>>
    /\ log' = <<>>

Handle(qq, t) ==
    /\ q' = qq
    /\ type' = t
    /\ path' = PathOf(qq, t)
    /\ Iterate(1, path', <<>>, {})
    /\ tweets' = <<>>
    /\ log' = <<>>

\* A request arrives
Call ==
    /\ pc \in {"idle", "done"}
    /\ \E qq \in QPool, t \in TypePool : Handle(qq, t)
    /\ last' = NoReturn
    /\ UNCHANGED <<mirror_response, fvars, peer, rid>>

\* The request just answered arrives once more; last keeps what it was
\* answered and which GETs it made
Repeat ==
    /\ pc = "done"
    /\ Handle(q, type)
    /\ last' = [q |-> q, type |-> type, ret |-> ret, requests |-> requests]
    /\ UNCHANGED <<mirror_response, fvars, peer, rid>>

\* client.get raises: lines 99-101, then the next mirror
GetRaises(Response) ==
    /\ Resumed(Response)
    /\ Response.kind = "error"
    /\ log' = Append(log, "get_raised")
    /\ Except(idx, path, requests, pending \ {idx})
    /\ UNCHANGED <<q, type, path, tweets, fvars, hvars>>

\* line 81 is false: nothing is done with the response, then the next mirror
StatusRejected(Response) ==
    /\ Resumed(Response)
    /\ Response.kind = "http"
    /\ ~StatusOk(Response.status_code)
    /\ log' = Append(log, "status")
    /\ Iterate(Advance(idx), path, requests, pending \ {idx})
    /\ UNCHANGED <<q, type, path, tweets, fvars, hvars>>

\* lines 82-85: the feed parsed has no entries, continue
EmptyFeed(Response) ==
    /\ Resumed(Response)
    /\ Response.kind = "http"
    /\ StatusOk(Response.status_code)
    /\ NoEntries(Parse(Response))
    /\ log' = Append(log, "empty")
    /\ Iterate(Advance(idx), path, requests, pending \ {idx})
    /\ UNCHANGED <<q, type, path, tweets, fvars, hvars>>

\* lines 87-96 raise on an entry, lines 99-101, then the next mirror
BuildRaises(Response) ==
    /\ Resumed(Response)
    /\ Response.kind = "http"
    /\ StatusOk(Response.status_code)
    /\ ~NoEntries(Parse(Response))
    /\ LET b == Build(Parse(Response), 1, q, NewTweets(tweets))
       IN  /\ b.raised
           /\ tweets' = b.tweets
    /\ log' = Append(log, "build_raised")
    /\ Except(idx, path, requests, pending \ {idx})
    /\ UNCHANGED <<q, type, path, fvars, hvars>>

\* lines 87-98: every entry gives a Tweet, return
Return(Response) ==
    /\ Resumed(Response)
    /\ Response.kind = "http"
    /\ StatusOk(Response.status_code)
    /\ ~NoEntries(Parse(Response))
    /\ LET b == Build(Parse(Response), 1, q, NewTweets(tweets))
       IN  /\ ~b.raised
           /\ tweets' = b.tweets
           /\ ret' = TweetResponse(NITTER_INSTANCES[idx], b.tweets)
    /\ log' = Append(log, "returned")
    /\ pending' = pending \ {idx}
    /\ pc' = "done"
    /\ UNCHANGED <<q, type, path, idx, requests, fvars, hvars>>

Mirrors == {NITTER_INSTANCES[i] : i \in 1..Len(NITTER_INSTANCES)}

HelpersOff ==
    /\ raw_html = <<>>
    /\ cleantext = <<>>
    /\ description = <<>>
    /\ url = None
    /\ fpc = "off"

Idle ==
    /\ path = <<>>
    /\ pc = "idle"
    /\ idx = 0
    /\ tweets = <<>>
    /\ ret = NoReturn
    /\ requests = <<>>
    /\ pending = {}
    /\ log = <<>>

NoRequest ==
    /\ q = <<>>
    /\ type = "user"
    /\ Idle

\* a frame of get_tweets that has not started
IdleFrame ==
    [ q |-> <<>>, type |-> "user", path |-> <<>>, pc |-> "idle", idx |-> 0,
      tweets |-> <<>>, ret |-> NoReturn, requests |-> <<>>, pending |-> {},
      log |-> <<>> ]

\* the application as constructed: no request yet, no mirror asked yet
ServerIdle ==
    /\ mirror_response = [m \in Mirrors |-> NotAsked]
    /\ NoRequest
    /\ last = NoReturn
    /\ peer = IdleFrame
    /\ rid = 1

Init ==
    /\ ServerIdle
    /\ HelpersOff

Next ==
    \/ Call
    \/ \E r \in ResponsePool : GetRaises(r)
    \/ \E r \in ResponsePool : StatusRejected(r)
    \/ \E r \in ResponsePool : EmptyFeed(r)
    \/ \E r \in ResponsePool : BuildRaises(r)
    \/ \E r \in ResponsePool : Return(r)

Spec == Init /\ [][Next]_vars

(***************************************************************************)
(* Two requests in one event loop. The state variables of get_tweets are   *)
(* those of the coroutine the loop is running, peer is the frame of the    *)
(* other one; the loop can change coroutine wherever one is suspended.     *)
(***************************************************************************)
\* the frame of the coroutine the loop is running
Frame ==
    [ q |-> q, type |-> type, path |-> path, pc |-> pc, idx |-> idx,
      tweets |-> tweets, ret |-> ret, requests |-> requests,
      pending |-> pending, log |-> log ]

\* the loop runs the frame f next
Run(f) ==
    /\ q' = f.q
    /\ type' = f.type
    /\ pc' = f.pc
    /\ idx' = f.idx
    /\ tweets' = f.tweets
    /\ ret' = f.ret
    /\ requests' = f.requests
    /\ pending' = f.pending
    /\ log' = f.log

\* The loop turns to the other coroutine: every local of get_tweets belongs
\* to its frame; and a variant in which path is a variable of the module,
\* shared by the requests
SwitchSharedPath ==
    /\ peer' = Frame
    /\ Run(peer)
    /\ path' = path
    /\ rid' = 3 - rid
    /\ UNCHANGED <<mirror_response, last, fvars>>

Switch ==
    /\ peer' = Frame
    /\ Run(peer)
    /\ path' = peer.path
    /\ rid' = 3 - rid
    /\ UNCHANGED <<mirror_response, last, fvars>>

\* what the two requests ask for, and what the mirrors answer them: one
\* answer for each way an attempt can end
AsyncQ == << {<<"@", "a">>}, {<<"c">>} >>
AsyncType == << {"user"}, {"search"} >>
AsyncAnswers ==
    { TransportError,
      Http(404, <<>>),
      Http(200, <<>>),
      Http(200, <<E1, E3>>),
      Http(200, <<E2, E1>>) }

\* the request of the coroutine the loop is running arrives
Arrive ==
    /\ pc = "idle"
    /\ \E qq \in AsyncQ[rid], t \in AsyncType[rid] : Handle(qq, t)
    /\ UNCHANGED <<mirror_response, fvars, hvars>>

\* The task of the request is cancelled while it is suspended in client.get
\* (line 79): CancelledError is not an Exception, line 99 does not catch it,
\* the client is closed (line 75) and the coroutine ends without a value;
\* and a variant that answers the cancelled request as unavailable
CancelAnswered ==
    /\ pc = "await"
    /\ pc' = "cancelled"
    /\ pending' = {}
    /\ ret' = HTTPException(503)
    /\ UNCHANGED <<mirror_response, q, type, path, idx, tweets, requests, log, fvars, hvars>>

Cancel ==
    /\ pc = "await"
    /\ pc' = "cancelled"
    /\ pending' = {}
    /\ UNCHANGED <<mirror_response, q, type, path, idx, tweets, ret, requests, log, fvars, hvars>>

NextAsync ==
    \/ Arrive
    \/ Switch
    \/ Cancel
    \/ \E r \in AsyncAnswers : GetRaises(r)
    \/ \E r \in AsyncAnswers : StatusRejected(r)
    \/ \E r \in AsyncAnswers : EmptyFeed(r)
    \/ \E r \in AsyncAnswers : BuildRaises(r)
    \/ \E r \in AsyncAnswers : Return(r)

SpecAsync == Init /\ [][NextAsync]_vars

\* One client, whose request may be cancelled. Every client.get has a
\* timeout (line 79, timeout=7.0): a suspended coroutine is resumed, with a
\* response or an exception, unless it is cancelled first
Resume ==
    \E r \in ResponsePool :
        GetRaises(r) \/ StatusRejected(r) \/ EmptyFeed(r) \/ BuildRaises(r) \/ Return(r)

NextLive ==
    \/ Call
    \/ Cancel
    \/ \E r \in ResponsePool : GetRaises(r)
    \/ \E r \in ResponsePool : StatusRejected(r)
    \/ \E r \in ResponsePool : EmptyFeed(r)
    \/ \E r \in ResponsePool : BuildRaises(r)
    \/ \E r \in ResponsePool : Return(r)

SpecLive == Init /\ [][NextLive]_vars /\ WF_vars(Resume)

\* The same server with clients that send a request again
NextRepeat ==
    \/ Call
    \/ Repeat
    \/ \E r \in ResponsePool : GetRaises(r)
    \/ \E r \in ResponsePool : StatusRejected(r)
    \/ \E r \in ResponsePool : EmptyFeed(r)
    \/ \E r \in ResponsePool : BuildRaises(r)
    \/ \E r \in ResponsePool : Return(r)

SpecRepeat == Init /\ [][NextRepeat]_vars

(***************************************************************************)
(* The helpers on their own: one call of each, over bounded arguments      *)
(***************************************************************************)
InitClean ==
    /\ raw_html \in StringsUpTo(CleanAlphabet, MaxLen)
    /\ cleantext = <<>>
    /\ description = <<>>
    /\ url = None
    /\ fpc = "ready"
    /\ ServerIdle

CallCleanHtml ==
    /\ fpc = "ready"
    /\ cleantext' = clean_html(raw_html)
    /\ fpc' = "returned"
    /\ UNCHANGED <<raw_html, description, url, cvars, hvars>>

SpecClean == InitClean /\ [][CallCleanHtml]_vars

InitImage ==
    /\ description \in StringsUpTo(ElemPool, MaxElems)
    /\ url = None
    /\ raw_html = <<>>
    /\ cleantext = <<>>
    /\ fpc = "ready"
    /\ ServerIdle

CallExtractImage ==
    /\ fpc = "ready"
    /\ url' = extract_image(Render(description))
    /\ fpc' = "returned"
    /\ UNCHANGED <<raw_html, cleantext, description, cvars, hvars>>

SpecImage == InitImage /\ [][CallExtractImage]_vars

QAlphabet == {"@", "a", "b"}

\* type is a plain str parameter: any text may arrive in it
TypeValues == {"user", "search", "User", ""}

InitPath ==
    /\ q \in StringsUpTo(QAlphabet, MaxQLen)
    /\ type \in TypeValues
    /\ last = NoReturn
    /\ peer = IdleFrame
    /\ rid = 1
    /\ mirror_response = [m \in Mirrors |-> NotAsked]
    /\ Idle
    /\ raw_html = <<>>
    /\ cleantext = <<>>
    /\ description = <<>>
    /\ url = None
    /\ fpc = "ready"

\* line 73 on its own
BuildPath ==
    /\ fpc = "ready"
    /\ path' = PathOf(q, type)
    /\ fpc' = "returned"
    /\ UNCHANGED <<mirror_response, q, type, pc, idx, tweets, ret, requests, pending, log>>
    /\ UNCHANGED <<raw_html, cleantext, description, url, hvars>>

SpecPath == InitPath /\ [][BuildPath]_vars

(***************************************************************************)
(* C9: for every input string, the output of clean_html contains no        *)
(* substring that starts with '<' and ends with a later '>', and has no    *)
(* leading or trailing whitespace.                                         *)
(***************************************************************************)
HasSpan(s) == \E i \in 1..Len(s) : \E j \in (i + 1)..Len(s) : s[i] = "<" /\ s[j] = ">"

Trimmed(s) == s = <<>> \/ (~IsSpace(s[1]) /\ ~IsSpace(s[Len(s)]))

C9_CleanHtmlNoSpan ==
    fpc = "returned" => (~HasSpan(cleantext) /\ Trimmed(cleantext))

\* the part of C9 that the code does keep: the output is trimmed
C9_Trimmed == fpc = "returned" => Trimmed(cleantext)

(***************************************************************************)
(* C10: extract_image returns the src value of the first image tag         *)
(* carrying a src attribute and ignores later image tags, returns None     *)
(* when there is no image tag, and prefixes "https:" to a value that       *)
(* begins with "//".                                                       *)
(***************************************************************************)
HasAttr(e, n) == \E i \in 1..Len(e.attrs) : e.attrs[i].name = n

AttrValue(e, n) ==
    e.attrs[CHOOSE i \in 1..Len(e.attrs) :
                /\ e.attrs[i].name = n
                /\ \A j \in 1..(i - 1) : e.attrs[j].name # n].value

IsImgWithSrc(e) == e.kind = "tag" /\ e.name = IMGNAME /\ HasAttr(e, SRC)

ExpectedImage(es) ==
    LET I == {i \in 1..Len(es) : IsImgWithSrc(es[i])}
    IN  IF I = {} THEN None
        ELSE LET f == CHOOSE i \in I : \A j \in I : i <= j
                 v == AttrValue(es[f], SRC)
             IN  IF StartsWith(v, <<"/", "/">>, 1) THEN Some(HTTPS \o v) ELSE Some(v)

C10_FirstImageSrc ==
    fpc = "returned" => url = ExpectedImage(description)

(***************************************************************************)
(* What the claims speak of                                                *)
(***************************************************************************)
N == Len(NITTER_INSTANCES)

Answer(i) == mirror_response[NITTER_INSTANCES[i]]

Asked(i) == Answer(i) # NotAsked

AllReadable(entries) ==
    \A k \in 1..Len(entries) :
        {"id", "description", "link", "published"} \subseteq DOMAIN entries[k]

\* The outcome of one attempt, from the answer of the mirror
Outcome(r) ==
    IF r.kind = "error" THEN "Failure"
    ELSE IF r.status_code # 200 THEN "Failure"
    ELSE IF r.entries = <<>> THEN "Empty"
    ELSE IF AllReadable(r.entries) THEN "Success"
    ELSE "Failure"

Succeeds(i) == Asked(i) /\ Outcome(Answer(i)) = "Success"

\* the attempts of the current request that are over
Finished == 1..Len(log)

\* after its k-th attempt the request went on: to the next mirror, or, after
\* the last one, to the unavailability condition
WentOn(k) ==
    IF k < N THEN Len(requests) >= k + 1 /\ requests[k + 1][1] = NITTER_INSTANCES[k + 1]
    ELSE pc = "done" /\ ret = HTTPException(503)

(***************************************************************************)
(* C1: if get_tweets returns a result then its instance is the first       *)
(* mirror in list order whose outcome is Success, and no mirror listed     *)
(* after that one is contacted in that request.                            *)
(***************************************************************************)
C1_FirstSuccessWins ==
    ret.kind = "TweetResponse" =>
        \E f \in 1..N :
            /\ Succeeds(f)
            /\ \A i \in 1..(f - 1) : Asked(i) /\ Outcome(Answer(i)) # "Success"
            /\ ret.instance = NITTER_INSTANCES[f]
            /\ Len(requests) = f
            /\ \A k \in 1..Len(requests) :
                  \E i \in 1..f : requests[k][1] = NITTER_INSTANCES[i]
            /\ \A i \in (f + 1)..N : ~Asked(i)

\* A fails with a transport error, B returns a feed with entries, C is not
\* contacted
C1_Witness ==
    /\ ret.kind = "TweetResponse"
    /\ Answer(1) = TransportError
    /\ ret.instance = NITTER_INSTANCES[2]
    /\ Len(requests) = 2
    /\ ~Asked(3)

(***************************************************************************)
(* C2: get_tweets ends with the unavailability condition (HTTP 503) if and *)
(* only if every mirror in the list was attempted and each attempt ended   *)
(* as Failure or Empty; then no result object is returned.                 *)
(***************************************************************************)
C2_UnavailableIffExhausted ==
    pc = "done" =>
        /\ ret.kind \in {"TweetResponse", "HTTPException"}
        /\ (ret.kind = "HTTPException") <=>
              /\ Len(requests) = N
              /\ Len(log) = N
              /\ \A i \in 1..N :
                    /\ requests[i][1] = NITTER_INSTANCES[i]
                    /\ Asked(i)
                    /\ Outcome(Answer(i)) \in {"Failure", "Empty"}
        /\ ret.kind = "HTTPException" =>
              /\ ret.status_code = 503
              /\ "data" \notin DOMAIN ret

C2_Witness ==
    /\ pc = "done"
    /\ ret = HTTPException(503)
    /\ \E i \in 1..N : Outcome(Answer(i)) = "Empty"
    /\ \E i \in 1..N : Outcome(Answer(i)) = "Failure"

(***************************************************************************)
(* C3: when a mirror answers with a valid feed that has zero entries,      *)
(* get_tweets moves on to the next mirror; every result returned has at    *)
(* least one item in data.                                                 *)
(***************************************************************************)
C3_EmptyFeedMovesOn ==
    /\ \A k \in Finished :
          (Answer(k).kind = "http" /\ Answer(k).status_code = 200
              /\ Answer(k).entries = <<>>) => WentOn(k)
    /\ ret.kind = "TweetResponse" => Len(ret.data) >= 1

C3_Witness ==
    /\ ret.kind = "TweetResponse"
    /\ Answer(1) = Http(200, <<>>)
    /\ ret.instance = NITTER_INSTANCES[2]
    /\ Len(ret.data) = 2

(***************************************************************************)
(* C4: within one request the mirrors are contacted strictly in list       *)
(* order, starting with the first-listed mirror, one at a time, and each   *)
(* at most once, so there are never more attempts than mirrors.            *)
(***************************************************************************)
C4_ListOrderOnePass ==
    /\ Len(requests) <= N
    /\ \A k \in 1..Len(requests) : requests[k][1] = NITTER_INSTANCES[k]
    /\ \A j, k \in 1..Len(requests) : j # k => requests[j][1] # requests[k][1]
    /\ Cardinality(pending) <= 1
    /\ pc = "await" => pending = {Len(requests)}
    /\ pc # "idle" => Len(requests) >= 1

\* the last mirror is being asked after every other one failed or was empty
C4_Witness ==
    /\ pc = "await"
    /\ Len(requests) = N
    /\ pending = {N}
    /\ \E k \in Finished : log[k] = "get_raised"
    /\ \E k \in Finished : log[k] = "empty"

(***************************************************************************)
(* C5: every result is built from exactly one mirror's feed: one item for  *)
(* each entry of that feed, in the feed's order, and no item from a mirror *)
(* tried earlier in the request.                                           *)
(***************************************************************************)
C5_OneCompleteFeed ==
    ret.kind = "TweetResponse" =>
        \E f \in 1..N :
            /\ ret.instance = NITTER_INSTANCES[f]
            /\ Asked(f)
            /\ Answer(f).kind = "http"
            /\ Len(ret.data) = Len(Answer(f).entries)
            /\ \A k \in 1..Len(ret.data) :
                  /\ ret.data[k].id = Answer(f).entries[k].id
                  /\ ret.data[k].link = Answer(f).entries[k].link
                  /\ ret.data[k].published = Answer(f).entries[k].published

\* the mirror before the one returned raised after an item had been built
C5_Witness ==
    /\ ret.kind = "TweetResponse"
    /\ Len(log) = 2
    /\ log[1] = "build_raised"
    /\ tweets = ret.data
    /\ Len(ret.data) = 2
    /\ ret.data[1].id = "id2"
    /\ ret.data[2].id = "id1"

(***************************************************************************)
(* C6: a transport-level error or a non-2xx status on one attempt never    *)
(* aborts the request: the loop continues with the next mirror, and the    *)
(* only error a caller can observe is the total-exhaustion condition.      *)
(***************************************************************************)
C6_FailureNeverAborts ==
    /\ \A k \in Finished :
          (Answer(k).kind = "error"
              \/ (Answer(k).kind = "http" /\ Answer(k).status_code \notin 200..299))
          => WentOn(k)
    /\ ret.kind = "HTTPException" =>
          /\ ret.status_code = 503
          /\ Len(log) = N
          /\ \A k \in Finished : log[k] # "returned"

C6_Witness ==
    /\ ret.kind = "TweetResponse"
    /\ Len(log) = 3
    /\ Answer(1) = TransportError
    /\ Answer(2) = Http(404, <<>>)

(***************************************************************************)
(* C7: the status classification is by the 2xx class: every response with  *)
(* a status in 200..299 and a body is handed to feed parsing (Success with *)
(* at least one entry, Empty with none), every other response is a         *)
(* Failure.                                                                *)
(***************************************************************************)
Parsed(k) == log[k] \in {"empty", "build_raised", "returned"}

C7_ClassifiedBy2xx ==
    \A k \in Finished :
        Answer(k).kind = "http" =>
            /\ Answer(k).status_code \in 200..299 <=> Parsed(k)
            /\ (Answer(k).status_code \in 200..299 /\ Answer(k).entries = <<>>)
                  => log[k] = "empty"
            /\ (Answer(k).status_code \in 200..299 /\ Answer(k).entries # <<>>
                    /\ AllReadable(Answer(k).entries))
                  => log[k] = "returned"
            /\ Answer(k).status_code \notin 200..299 => (log[k] = "status" /\ WentOn(k))

\* C7 as amended: the classification is by the status 200 alone; every other
\* status, the other 2xx statuses included, is a Failure
C7_ClassifiedBy200 ==
    \A k \in Finished :
        Answer(k).kind = "http" =>
            /\ Answer(k).status_code = 200 <=> Parsed(k)
            /\ (Answer(k).status_code = 200 /\ Answer(k).entries = <<>>)
                  => (log[k] = "empty" /\ WentOn(k))
            /\ (Answer(k).status_code = 200 /\ Answer(k).entries # <<>>
                    /\ AllReadable(Answer(k).entries))
                  => (log[k] = "returned" /\ ret.kind = "TweetResponse"
                        /\ ret.instance = NITTER_INSTANCES[k])
            /\ Answer(k).status_code # 200 => (log[k] = "status" /\ WentOn(k))

\* a 203 answer with a feed of one entry was passed over, a 200 answer served
C7_Witness ==
    /\ ret.kind = "TweetResponse"
    /\ Len(log) = 2
    /\ Answer(1) = Http(203, <<E1>>)
    /\ log[1] = "status"
    /\ log[2] = "returned"

(***************************************************************************)
(* C8: in User mode the request path is the subject with its leading '@',  *)
(* and only a leading '@', stripped; every other character of the subject  *)
(* is kept unchanged.                                                      *)
(***************************************************************************)
C8_LeadingAtStripped ==
    (fpc = "returned" /\ type = "user") => path = LStripAt(q)

NotAt(c) == c # "@"

\* C8 as amended: every '@' of the subject is removed, wherever it stands, and
\* every other character is kept, in order
C8_EveryAtRemoved ==
    (fpc = "returned" /\ type = "user") =>
        /\ path = SelectSeq(q, NotAt)
        /\ (q # <<>> /\ Head(q) = "@" /\ \A i \in 2..Len(q) : q[i] # "@")
              => path = Tail(q)

C8_Witness ==
    /\ fpc = "returned"
    /\ type = "user"
    /\ q = <<"a", "@", "b">>
    /\ path = <<"a", "b">>

\* ---------------------------------------------------------------------------
\* C11
\* ---------------------------------------------------------------------------

\* An absolute URL starts with a scheme: a non-empty run free of "/", "?" and
\* "#" that a ":" ends
HasScheme(u) ==
    \E k \in 2..Len(u) :
        /\ u[k] = ":"
        /\ \A j \in 1..(k - 1) : u[j] \notin {"/", "?", "#", ":"}

\* C11: the image of an item is absent or an absolute URL with a scheme,
\* whatever form the src attribute had (absolute, "//host/...", "/path").
\* The code completes only the "//" form (line 59) and gives every other
\* value back as it stands (line 61), so src="/p" gives "/p".
C11_ImageAbsolute ==
    fpc = "returned" => (url = None \/ HasScheme(url.val))

\* ---------------------------------------------------------------------------
\* C12
\* ---------------------------------------------------------------------------

\* C12: the service keeps nothing between requests: a request sent again
\* while the mirrors keep to their answers is answered as it was the first
\* time and makes the same GETs in the same order, also when the first time
\* ended with the whole list used up.
C12_RepeatSameOutcome ==
    (pc = "done" /\ last # NoReturn) =>
        /\ last.q = q /\ last.type = type
        /\ ret = last.ret
        /\ requests = last.requests

\* a request answered 503 after all mirrors is sent again and ends again
C12_Witness ==
    /\ pc = "done"
    /\ last # NoReturn
    /\ last.ret = HTTPException(503)
    /\ Len(last.requests) = Len(NITTER_INSTANCES)
    /\ Len(requests) = Len(NITTER_INSTANCES)

\* ---------------------------------------------------------------------------
\* C13
\* ---------------------------------------------------------------------------

\* C13: the k-th GET of a request goes to {k-th mirror}/{subject}/rss in
\* User mode (the subject as prepared for that mode, its '@' taken out) and
\* to {k-th mirror}/search?q={subject}/rss in Search mode, the subject put
\* in as it was given; the path is the same for every mirror of the request.
C13_RequestUrl ==
    \A k \in 1..Len(requests) :
        requests[k] =
            <<NITTER_INSTANCES[k], "/">>
            \o (IF type = "user" THEN SelectSeq(q, NotAt) ELSE SEARCH \o q)
            \o <<"/", "r", "s", "s">>

\* a search for "@a" has gone to two mirrors, the '@' still in the URL
C13_Witness ==
    /\ type = "search"
    /\ q = <<"@", "a">>
    /\ Len(requests) >= 2
    /\ requests[2] = <<"https://nitter.poast.org", "/">> \o SEARCH \o <<"@", "a", "/", "r", "s", "s">>

\* ---------------------------------------------------------------------------
\* C14
\* ---------------------------------------------------------------------------

\* C14: every item of a result has the author of its entry when the entry
\* has one and the subject of the request, as it was given, when it has
\* none; id, link and published are those of the entry.
C14_AuthorAndPassThrough ==
    ret.kind = "TweetResponse" =>
        LET entries == Answer(idx).entries
        IN  /\ Len(ret.data) = Len(entries)
            /\ \A k \in 1..Len(entries) :
                  /\ ret.data[k].author =
                        IF "author" \in DOMAIN entries[k]
                        THEN entries[k].author ELSE q
                  /\ ret.data[k].id = entries[k].id
                  /\ ret.data[k].link = entries[k].link
                  /\ ret.data[k].published = entries[k].published

\* "@a" in User mode is answered with an entry without author, which gets
\* "@a", and an entry by "bob"
C14_Witness ==
    /\ ret.kind = "TweetResponse"
    /\ q = <<"@", "a">>
    /\ type = "user"
    /\ Len(ret.data) = 2
    /\ ret.data[1].author = <<"@", "a">>
    /\ ret.data[1].id = "id2"
    /\ ret.data[2].author = <<"b", "o", "b">>

\* ---------------------------------------------------------------------------
\* C20
\* ---------------------------------------------------------------------------

\* C20: the mode is User exactly when type equals "user"; every other value
\* of type, "User" and the empty text included, is handled as Search mode,
\* and a path is built whatever the value.
C20_ModeByEquality ==
    fpc = "returned" =>
        path = IF type = "user" THEN SelectSeq(q, NotAt) ELSE SEARCH \o q

\* type "User" is not "user": the subject "@a" is searched for
C20_Witness ==
    /\ fpc = "returned"
    /\ type = "User"
    /\ q = <<"@", "a">>
    /\ path = SEARCH \o <<"@", "a">>

\* ---------------------------------------------------------------------------
\* C19
\* ---------------------------------------------------------------------------

\* C19: a mirror answering 200 with a feed one of whose entries lacks id,
\* description, link or published fails as a whole: the error of reading
\* the field is caught, the request goes on to the next mirror, and a
\* result returned later holds the items of the returning mirror only,
\* none of those built before the error.
C19_MissingFieldFailsMirror ==
    \A k \in Finished :
        ( /\ Answer(k).kind = "http"
          /\ Answer(k).status_code = 200
          /\ Answer(k).entries # <<>>
          /\ ~AllReadable(Answer(k).entries) ) =>
            /\ log[k] = "build_raised"
            /\ WentOn(k)
            /\ ret.kind # "HTTPException" \/ ret.status_code = 503
            /\ ret.kind = "TweetResponse" =>
                  /\ ret.instance # NITTER_INSTANCES[k]
                  /\ Len(ret.data) = Len(Answer(idx).entries)
                  /\ \A j \in 1..Len(ret.data) :
                        ret.data[j].id = Answer(idx).entries[j].id

\* the first mirror gave an entry without published after a complete one,
\* the second mirror's two entries are the result
C19_Witness ==
    /\ Len(log) = 2
    /\ log[1] = "build_raised"
    /\ Answer(1).entries = <<E1, E3>>
    /\ ret.kind = "TweetResponse"
    /\ ret.instance = NITTER_INSTANCES[2]
    /\ Len(ret.data) = 2
    /\ ret.data[1].id = "id2"

\* ---------------------------------------------------------------------------
\* C15
\* ---------------------------------------------------------------------------

IsMalformed(r) == r.kind = "http" /\ "bozo" \in DOMAIN r

\* C15: a mirror whose 2xx payload is not a well-formed feed document is a
\* Failure: the request goes on to the next mirror and no item parsed from
\* that payload is ever returned.
C15_MalformedIsFailure ==
    /\ \A k \in Finished :
          IsMalformed(Answer(k)) => (log[k] # "returned" /\ WentOn(k))
    /\ ret.kind = "TweetResponse" => ~IsMalformed(Answer(idx))

\* C15 as amended: a status-200 payload that is not well-formed is handled
\* by the entries the parser recovered from it, like a well-formed one: none
\* recovered, the mirror is passed over as empty; all of them complete, they
\* are the result, from that mirror; one incomplete, the mirror fails.
C15_MalformedHandledByEntries ==
    \A k \in Finished :
        (IsMalformed(Answer(k)) /\ Answer(k).status_code = 200) =>
            LET entries == Answer(k).entries
            IN  /\ entries = <<>> => (log[k] = "empty" /\ WentOn(k))
                /\ (entries # <<>> /\ ~AllReadable(entries)) =>
                      (log[k] = "build_raised" /\ WentOn(k))
                /\ (entries # <<>> /\ AllReadable(entries)) =>
                      /\ log[k] = "returned"
                      /\ k = Len(log)
                      /\ pc = "done"
                      /\ ret.kind = "TweetResponse"
                      /\ ret.instance = NITTER_INSTANCES[k]
                      /\ Len(ret.data) = Len(entries)
                      /\ \A j \in 1..Len(entries) : ret.data[j].id = entries[j].id

\* after a mirror that could not be reached, the entry recovered from the
\* malformed payload of the second mirror is the result
C15_Witness ==
    /\ Len(log) = 2
    /\ log[1] = "get_raised"
    /\ IsMalformed(Answer(2))
    /\ ret = TweetResponse(NITTER_INSTANCES[2], <<Tweet(E1, q)>>)

\* ---------------------------------------------------------------------------
\* C16
\* ---------------------------------------------------------------------------

\* What a request for qq in mode t gets, and the GETs it makes, when it runs
\* alone from mirror i on against the answers the mirrors keep to, reqs
\* being the GETs made before
RECURSIVE Alone(_, _, _, _)
Alone(qq, t, i, reqs) ==
    IF i > N THEN [ret |-> HTTPException(503), requests |-> reqs]
    ELSE LET r == Answer(i)
             sent == Append(reqs, <<NITTER_INSTANCES[i], "/">> \o PathOf(qq, t) \o RSS)
         IN  IF ~Asked(i) THEN [ret |-> NoReturn, requests |-> sent]
             ELSE IF Outcome(r) = "Success"
             THEN [ret |-> TweetResponse(NITTER_INSTANCES[i],
                              [k \in 1..Len(r.entries) |-> Tweet(r.entries[k], qq)]),
                   requests |-> sent]
             ELSE Alone(qq, t, i + 1, sent)

\* the request of frame f ended as it would have alone
AsAlone(f) ==
    LET a == Alone(f.q, f.type, 1, <<>>)
    IN  f.ret = a.ret /\ f.requests = a.requests

\* C16: whatever the interleaving of two requests at their suspensions, each
\* one that ends has the answer, and has made the GETs in the order, it would
\* have alone against the same answers of the mirrors.
C16_AsIfAlone ==
    /\ pc = "done" => AsAlone(Frame)
    /\ peer.pc = "done" => AsAlone(peer)

\* the search for "c" has its result from the second mirror while the
\* request for "@a" is suspended in its own GET to that mirror
C16_Witness ==
    /\ pc = "done"
    /\ q = <<"c">>
    /\ ret.kind = "TweetResponse"
    /\ ret.instance = NITTER_INSTANCES[2]
    /\ ret.data[1].author = <<"c">>
    /\ peer.pc = "await"
    /\ peer.q = <<"@", "a">>
    /\ peer.idx = 2

\* ---------------------------------------------------------------------------
\* C17
\* ---------------------------------------------------------------------------

\* the request of frame f was cancelled in its GET to the mirror at f.idx:
\* no answer of any kind, the attempt in flight not counted as ended, no GET
\* after it, nothing left in flight
Abandoned(f) ==
    /\ f.ret = NoReturn
    /\ Len(f.requests) = f.idx
    /\ Len(f.log) = f.idx - 1
    /\ f.pending = {}

\* C17: a request cancelled while an attempt is in flight abandons it: the
\* attempt is not a failure of the mirror, no further mirror is contacted,
\* neither a result nor the 503 is produced; the other request ends as it
\* would have alone.
C17_CancelAbandons ==
    /\ pc = "cancelled" => (Abandoned(Frame) /\ (peer.pc = "done" => AsAlone(peer)))
    /\ peer.pc = "cancelled" => (Abandoned(peer) /\ (pc = "done" => AsAlone(Frame)))

\* the request for "@a" was cancelled in its GET to the second mirror; the
\* search for "c" went through the list after that
C17_Witness ==
    /\ peer.pc = "cancelled"
    /\ peer.idx = 2
    /\ peer.log = <<"get_raised">>
    /\ pc = "done"
    /\ ret = HTTPException(503)
    /\ Len(requests) = N

\* ---------------------------------------------------------------------------
\* C18
\* ---------------------------------------------------------------------------

\* C18: as every attempt ends (client.get returns, raises or times out), a
\* request that is not cancelled ends, with a result after at most N
\* attempts or with the 503 after N of them, and with nothing else.
C18_Terminates ==
    (pc = "await") ~>
        \/ pc = "cancelled"
        \/ pc = "done" /\ ret.kind = "TweetResponse" /\ Len(requests) <= N
        \/ pc = "done" /\ ret = HTTPException(503) /\ Len(requests) = N

\* a request ended with the 503 after N attempts, each of them ended
C18_Witness ==
    /\ pc = "done"
    /\ ret = HTTPException(503)
    /\ Len(requests) = N
    /\ Len(log) = N
    /\ pending = {}

====
